---- MODULE Spec2Model ----
(***************************************************************************)
(* Cardiac-MRI segmentation and volume time-series notebook (Code/ch3):    *)
(* labelling a mask, selecting the left ventricle, measuring its volume    *)
(* per time point and deriving the ejection fraction.                      *)
(*                                                                         *)
(* Arrays are records [shape, a]: shape is the tuple of axis lengths and a *)
(* maps every index tuple (0-based, as in NumPy) to its element.  One-     *)
(* dimensional series are functions over 0..n-1.  Volumes are counted in   *)
(* whole cubic units, and a quotient is kept as the exact pair num/den.    *)
(***************************************************************************)
EXTENDS Integers, Sequences, FiniteSets, TLC

VARIABLES
    pc,         \* position in the running cell
    exc,        \* exception that ended the cell, "none" while it runs
    ts,         \* the volume time series
    tmax, tmin, \* np.argmax(ts), np.argmin(ts)
    ej_vol,     \* ts.max() - ts.min()
    ej_frac,    \* ej_vol / ts.max()
    mask,       \* the binary mask handed to ndi.label
    labels,     \* the label array returned by ndi.label
    nlabels,    \* the number of objects returned by ndi.label
    anchor,     \* the index at which labels is read to find the left ventricle
    lv_val,     \* the label value read at the anchor
    lv_mask,    \* np.where(labels == lv_val, 1, 0)
    dvoxel,     \* the volume of one voxel
    nvoxels,    \* the number of voxels counted for the left ventricle
    volume,     \* nvoxels * dvoxel
    labels_ts,  \* the label arrays of the time series, one per time point
    sampling,   \* the sampling rates (d0, d1, d2, d3) of the time series
    t,          \* the loop variable: the next time point
    inflight,   \* time points handed to a worker that has not finished yet
    reordered,  \* some worker finished before one given a lower time point
    im,         \* the image handed to the median filter
    im_filt,    \* ndi.median_filter(im, size=3)
    mask_start, \* np.where(im_filt > 60, 1, 0)
    labels_ts2, \* the label arrays of a second run of the time-series cell
    ts2,        \* the volume time series of the second run
    im1, im2,   \* the two images compared by the mean absolute error
    dtype,      \* the data type of im1 and im2
    abs_err,    \* np.abs(im1 - im2)
    mean_abs_err \* np.mean(np.abs(im1 - im2))

efVars == <<ts, tmax, tmin, ej_vol, ej_frac>>
segVars == <<mask, labels, nlabels, anchor, lv_val, lv_mask>>
volVars == <<dvoxel, nvoxels, volume>>
\* values of names before their assignment
NoValue == [kind |-> "unset", num |-> 0, den |-> 1]
NoArray == [shape |-> <<>>, a |-> <<>>]

serVars == <<labels_ts, sampling, t>>
parVars == <<inflight, reordered>>
filtVars == <<im, im_filt, mask_start>>
pairVars == <<labels_ts2, ts2>>
errVars == <<im1, im2, dtype, abs_err, mean_abs_err>>
vars == <<pc, exc, efVars, segVars, volVars, serVars, parVars, filtVars, pairVars, errVars>>

\* what the cells of one exercise leave alone
notEF == <<segVars, volVars, serVars, parVars, filtVars, pairVars, errVars>>
notSeg == <<efVars, serVars, parVars, filtVars, pairVars, errVars>>
notSer == <<tmax, tmin, ej_vol, ej_frac, segVars, volume, filtVars, pairVars, errVars>>

\* names not assigned yet
EFUnset == tmax = -1 /\ tmin = -1 /\ ej_vol = -1 /\ ej_frac = NoValue
SegUnset ==
    /\ mask = NoArray /\ labels = NoArray /\ nlabels = -1
    /\ anchor = <<>> /\ lv_val = -1 /\ lv_mask = NoArray
SerUnset == labels_ts = <<>> /\ sampling = <<>> /\ t = -1
ParUnset == inflight = {} /\ reordered = FALSE
FiltUnset == im = NoArray /\ im_filt = NoArray /\ mask_start = NoArray
PairUnset == labels_ts2 = <<>> /\ ts2 = <<>>
ErrUnset ==
    /\ im1 = NoArray /\ im2 = NoArray /\ dtype = "none"
    /\ abs_err = NoArray /\ mean_abs_err = NoValue

----------------------------------------------------------------------------
(* Bounds of the checked inputs *)

\* longest series handed to the ejection-fraction cell
MaxLen == 4

\* most cells of a mask whose every filling is checked
MaxCells == 8

\* sizes of one voxel (mm^3), the product of the sampling rates in vol.meta
VoxelSizes == {1, 2}

\* the second object counted instead of the left ventricle
LVLabel_second_object == 1 + 1

\* the label value of the left ventricle in the provided segmentation
LVLabel == 1

\* the loop run over one time point more than the data has
NumTimePoints_one_more == 20 + 1

\* the number of time points the loop of "Summarize the time series" runs over
NumTimePoints == 20

\* most time points of a checked time series
MaxFrames == 21

\* largest step between the library frames of consecutive time points
MaxStride == 2

\* most workers measuring frames at the same time
MaxWorkers == 2

\* volumes a series entry may take (mm^3)
Volumes == {0, 80, 90, 100, 120}

----------------------------------------------------------------------------
(* NumPy reductions over a one-dimensional array *)

Size(s) == Cardinality(DOMAIN s)

\* np.argmin: index of the first occurrence of the smallest element
RECURSIVE ArgMinFrom(_, _, _)
ArgMinFrom(s, i, best) ==
    IF i >= Size(s) THEN best
    ELSE ArgMinFrom(s, i + 1, IF s[i] < s[best] THEN i ELSE best)

\* a 1-based position returned instead of the 0-based index
np_argmin_one_based(s) == ArgMinFrom(s, 1, 0) + 1

np_argmin(s) == ArgMinFrom(s, 1, 0)

\* np.argmax: index of the first occurrence of the largest element
RECURSIVE ArgMaxFrom(_, _, _)
ArgMaxFrom(s, i, best) ==
    IF i >= Size(s) THEN best
    ELSE ArgMaxFrom(s, i + 1, IF s[i] > s[best] THEN i ELSE best)

\* the comparison reversed: the first smallest element is found instead
np_argmax_reversed(s) == ArgMinFrom(s, 1, 0)

np_argmax(s) == ArgMaxFrom(s, 1, 0)

\* ndarray.max(): running maximum over the elements
RECURSIVE MaxFrom(_, _, _)
MaxFrom(s, i, m) ==
    IF i >= Size(s) THEN m
    ELSE MaxFrom(s, i + 1, IF s[i] > m THEN s[i] ELSE m)

np_max(s) == MaxFrom(s, 1, s[0])

\* ndarray.min(): running minimum over the elements
RECURSIVE MinFrom(_, _, _)
MinFrom(s, i, m) ==
    IF i >= Size(s) THEN m
    ELSE MinFrom(s, i + 1, IF s[i] < m THEN s[i] ELSE m)

np_min(s) == MinFrom(s, 1, s[0])

\* float64 true division: x/0 does not raise, it yields nan (0/0) or inf
TrueDivide(x, y) ==
    IF y # 0 THEN [kind |-> "number", num |-> x, den |-> y]
    ELSE IF x = 0 THEN [kind |-> "nan", num |-> 0, den |-> 0]
    ELSE [kind |-> "inf", num |-> x, den |-> 0]

----------------------------------------------------------------------------
(* N-dimensional arrays *)

\* every index tuple of an array of the given shape (two or three axes)
Indices(shape) ==
    IF Len(shape) = 2
    THEN {<<r, c>> : r \in 0 .. (shape[1] - 1), c \in 0 .. (shape[2] - 1)}
    ELSE {<<p, r, c>> : p \in 0 .. (shape[1] - 1), r \in 0 .. (shape[2] - 1),
                        c \in 0 .. (shape[3] - 1)}

\* number of elements
NumCells(shape) ==
    IF Len(shape) = 2 THEN shape[1] * shape[2] ELSE shape[1] * shape[2] * shape[3]

\* the index tuple at position i of the row-major (C order) traversal
Unravel(i, shape) ==
    IF Len(shape) = 2
    THEN <<i \div shape[2], i % shape[2]>>
    ELSE <<i \div (shape[2] * shape[3]), (i \div shape[3]) % shape[2], i % shape[3]>>

\* np.where(cond, 1, 0) for the condition "element equals v"
WhereEq(arr, v) ==
    [shape |-> arr.shape,
     a |-> [x \in DOMAIN arr.a |-> IF arr.a[x] = v THEN 1 ELSE 0]]

----------------------------------------------------------------------------
(* scipy.ndimage.label with its default structuring element *)

\* the full structure generate_binary_structure(ndim, ndim): diagonal
\* neighbours count as connected too
AllNeighbours(x, shape) ==
    {y \in Indices(shape) : y # x /\ \A k \in 1 .. Len(shape) : x[k] - y[k] \in {-1, 0, 1}}

\* the default structure generate_binary_structure(ndim, 1): the elements one
\* step away along exactly one axis
FaceNeighbours(x, shape) ==
    {[x EXCEPT ![k] = x[k] + d] : k \in 1 .. Len(shape), d \in {-1, 1}}
        \cap Indices(shape)

\* the object containing the elements of region: spread over non-zero
\* neighbours until nothing is added
RECURSIVE Fill(_, _, _)
Fill(m, region, frontier) ==
    IF frontier = {} THEN region
    ELSE LET new == {y \in UNION {FaceNeighbours(x, m.shape) : x \in frontier} :
                        m.a[y] # 0 /\ y \notin region}
         IN  Fill(m, region \cup new, new)

\* row-major scan: the first element of every object not yet labelled gives
\* the whole object the next label value
RECURSIVE LabelScan(_, _, _, _)
LabelScan(m, i, lab, k) ==
    IF i >= NumCells(m.shape) THEN [labels |-> [shape |-> m.shape, a |-> lab],
                                    nlabels |-> k]
    ELSE LET x == Unravel(i, m.shape)
         IN  IF m.a[x] # 0 /\ lab[x] = 0
             THEN LET obj == Fill(m, {x}, {x})
                  IN  LabelScan(m, i + 1,
                                [y \in DOMAIN lab |-> IF y \in obj THEN k + 1 ELSE lab[y]],
                                k + 1)
             ELSE LabelScan(m, i + 1, lab, k)

\* the object counter started at 1 instead of 0
ndi_label_counting_from_one(m) == LabelScan(m, 0, [x \in Indices(m.shape) |-> 0], 1)

ndi_label(m) == LabelScan(m, 0, [x \in Indices(m.shape) |-> 0], 0)

----------------------------------------------------------------------------
(* Measurement "Calculate volume" *)

\* "labels >= v" written for "labels == v"
CountAtLeast(arr, v) == Cardinality({x \in DOMAIN arr.a : arr.a[x] >= v})

\* number of elements equal to v
CountEq(arr, v) == Cardinality({x \in DOMAIN arr.a : arr.a[x] = v})

\* the voxel count returned without the multiplication by the voxel size
MeasureVolume_count_only(lab, v, dv) == CountEq(lab, v)

\* voxels carrying the label value, times the size of each voxel
MeasureVolume(lab, v, dv) == CountEq(lab, v) * dv

----------------------------------------------------------------------------
(* Cells "Select objects" / "Extract objects" and exercise "Calculate volume" *)

Shapes ==
    {sh \in {<<r, c>> : r \in 1 .. MaxCells, c \in 1 .. MaxCells} :
        sh[1] * sh[2] <= MaxCells}
    \cup
    {sh \in {<<p, r, c>> : p \in 2 .. MaxCells, r \in 1 .. MaxCells,
                            c \in 1 .. MaxCells} :
        sh[1] * sh[2] * sh[3] <= MaxCells}

\* a 2-D mask that is 1 exactly on the given set of index tuples
MaskOf(shape, ones) ==
    [shape |-> shape, a |-> [x \in Indices(shape) |-> IF x \in ones THEN 1 ELSE 0]]

\* the index tuples of the rows r0..r1 and columns c0..c1
Block(r0, r1, c0, c1) == {<<r, c>> : r \in r0 .. r1, c \in c0 .. c1}

\* 5x5 mask with one 3x3 block centred at (2,2)
CentredBlockMask == MaskOf(<<5, 5>>, Block(1, 3, 1, 3))

\* 10x10 masks with two 2x2 blocks: far apart, and touching at a corner only
TwoBlocksMask == MaskOf(<<10, 10>>, Block(1, 2, 1, 2) \cup Block(6, 7, 5, 6))
CornerBlocksMask == MaskOf(<<10, 10>>, Block(1, 2, 1, 2) \cup Block(3, 4, 3, 4))

\* every 0/1 filling of every small shape, and the three larger masks
AllMasks(shape) == {[shape |-> shape, a |-> f] : f \in [Indices(shape) -> {0, 1}]}

MaskInputs ==
    UNION {AllMasks(sh) : sh \in Shapes}
        \cup {CentredBlockMask, TwoBlocksMask, CornerBlocksMask}

InitSeg ==
    /\ pc = "label"
    /\ exc = "none"
    /\ mask \in MaskInputs
    /\ dvoxel \in VoxelSizes
    /\ labels = NoArray /\ nlabels = -1
    /\ anchor = <<>> /\ lv_val = -1 /\ lv_mask = NoArray
    /\ nvoxels = -1 /\ volume = -1
    /\ ts = <<>> /\ EFUnset /\ SerUnset /\ ParUnset /\ FiltUnset /\ PairUnset /\ ErrUnset

\* labels, nlabels = ndi.label(mask)
LabelMask ==
    /\ pc = "label"
    /\ labels' = ndi_label(mask).labels
    /\ nlabels' = ndi_label(mask).nlabels
    /\ pc' = "select"
    /\ UNCHANGED <<exc, mask, anchor, lv_val, lv_mask, volVars, notSeg>>

\* the labels read at the first element instead of at the anchor
SelectLV_first_element ==
    /\ pc = "select"
    /\ \E x \in Indices(labels.shape) :
          /\ anchor' = x
          /\ lv_val' = labels.a[Unravel(0, labels.shape)]
    /\ pc' = "extract"
    /\ UNCHANGED <<exc, mask, labels, nlabels, lv_mask, volVars, notSeg>>

\* lv_val = labels[128, 128]: the label at a fixed index known to lie in the
\* left ventricle (the centre of the 256x256 slice)
SelectLV ==
    /\ pc = "select"
    /\ \E x \in Indices(labels.shape) :
          /\ anchor' = x
          /\ lv_val' = labels.a[x]
    /\ pc' = "extract"
    /\ UNCHANGED <<exc, mask, labels, nlabels, lv_mask, volVars, notSeg>>

\* lv_mask = np.where(labels == lv_val, 1, 0)
ExtractLV ==
    /\ pc = "extract"
    /\ lv_mask' = WhereEq(labels, lv_val)
    /\ pc' = "volume"
    /\ UNCHANGED <<exc, mask, labels, nlabels, anchor, lv_val, volVars, notSeg>>

\* count the voxels of the left ventricle (label value of 1), then multiply
\* by the size of each voxel
CalcVolume ==
    /\ pc = "volume"
    /\ nvoxels' = CountEq(labels, LVLabel)
    /\ volume' = MeasureVolume(labels, LVLabel, dvoxel)
    /\ pc' = "measured"
    /\ UNCHANGED <<exc, segVars, dvoxel, notSeg>>

NextSeg == LabelMask \/ SelectLV \/ ExtractLV \/ CalcVolume

SpecSeg == InitSeg /\ [][NextSeg]_vars

----------------------------------------------------------------------------
(* Segment the heart: filter, threshold, close, label *)

\* size=3 of the median filter and the intensity the mask starts from
SmoothingSize == 3
MaskThreshold == 60

\* largest number of pixels of an input image
MaxPixels == 9

\* mode='reflect': the input is extended by mirroring about the edge of the
\* last pixel (d c b a | a b c d | d c b a)
Reflect(i, n) ==
    LET m == i % (2 * n) IN IF m < n THEN m ELSE 2 * n - 1 - m

\* the offsets of a window of the given size along every axis; origin 0 puts
\* the centre at position size // 2 of the window
Window(ndim, size) ==
    LET side == (0 - (size \div 2)) .. (size - 1 - (size \div 2))
    IN  IF ndim = 2 THEN {<<dr, dc>> : dr \in side, dc \in side}
        ELSE {<<dp, dr, dc>> : dp \in side, dr \in side, dc \in side}

\* the largest window value: a maximum filter
RankMaximum(w) ==
    CHOOSE v \in {w[o] : o \in DOMAIN w} : \A o \in DOMAIN w : w[o] <= v

\* the element of rank len // 2 of the sorted window values
RankMedian(w) ==
    LET rank == Cardinality(DOMAIN w) \div 2
    IN  CHOOSE v \in {w[o] : o \in DOMAIN w} :
            /\ Cardinality({o \in DOMAIN w : w[o] < v}) <= rank
            /\ Cardinality({o \in DOMAIN w : w[o] <= v}) > rank

\* a filter that keeps only the positions whose window lies inside the input
ndi_median_filter_valid(arr, size) ==
    LET sh == [k \in 1 .. Len(arr.shape) |->
                  IF arr.shape[k] >= size THEN arr.shape[k] - size + 1 ELSE 0]
    IN  [shape |-> sh,
         a |-> [x \in Indices(sh) |->
                  RankMedian([o \in Window(Len(sh), size) |->
                      arr.a[[k \in 1 .. Len(sh) |-> x[k] + o[k] + (size \div 2)]]])]]

\* ndi.median_filter(arr, size): every element becomes the median of the
\* window around it
ndi_median_filter(arr, size) ==
    [shape |-> arr.shape,
     a |-> [x \in Indices(arr.shape) |->
              RankMedian([o \in Window(Len(arr.shape), size) |->
                  arr.a[[k \in 1 .. Len(arr.shape) |->
                            Reflect(x[k] + o[k], arr.shape[k])]]])]]

\* the condition "element is at least v"
WhereGe(arr, v) ==
    [shape |-> arr.shape,
     a |-> [x \in DOMAIN arr.a |-> IF arr.a[x] >= v THEN 1 ELSE 0]]

\* np.where(cond, 1, 0) for the condition "element is greater than v"
WhereGt(arr, v) ==
    [shape |-> arr.shape,
     a |-> [x \in DOMAIN arr.a |-> IF arr.a[x] > v THEN 1 ELSE 0]]

\* ndi.binary_dilation with the default structure and border_value=0: an
\* element is set when it or one of its face neighbours is set
ndi_binary_dilation(arr) ==
    [shape |-> arr.shape,
     a |-> [x \in DOMAIN arr.a |->
              IF \E y \in {x} \cup FaceNeighbours(x, arr.shape) : arr.a[y] # 0
              THEN 1 ELSE 0]]

\* ndi.binary_erosion with the default structure and border_value=0: an
\* element stays set when it and all its face neighbours are set; what lies
\* outside the array counts as not set
ndi_binary_erosion(arr) ==
    [shape |-> arr.shape,
     a |-> [x \in DOMAIN arr.a |->
              IF /\ arr.a[x] # 0
                 /\ Cardinality(FaceNeighbours(x, arr.shape)) = 2 * Len(arr.shape)
                 /\ \A y \in FaceNeighbours(x, arr.shape) : arr.a[y] # 0
              THEN 1 ELSE 0]]

\* a closing that stops after the dilation
ndi_binary_closing_dilation_only(arr) == ndi_binary_dilation(arr)

\* ndi.binary_closing(arr): dilate, then erode
ndi_binary_closing(arr) == ndi_binary_erosion(ndi_binary_dilation(arr))

\* intensities on both sides of the threshold
Intensities == {60, 61}

ImShapes == {sh \in (1 .. MaxPixels) \X (1 .. MaxPixels) : sh[1] * sh[2] <= MaxPixels}

\* a 3x3 image with nine different intensities
SampleImage ==
    [shape |-> <<3, 3>>,
     a |-> [x \in Indices(<<3, 3>>) |->
              <<<<93, 36, 87>>, <<18, 49, 51>>, <<45, 32, 63>>>>[x[1] + 1][x[2] + 1]]]

\* 5x5 images with one bright block that has one darker pixel in it
BlockImages ==
    {[shape |-> <<5, 5>>,
      a |-> [x \in Indices(<<5, 5>>) |->
               IF x \in Block(r0, r1, c0, c1) /\ x # h THEN 61 ELSE 60]] :
        r0 \in 0 .. 4, r1 \in 0 .. 4, c0 \in 0 .. 4, c1 \in 0 .. 4,
        h \in Indices(<<5, 5>>)}

ImageInputs ==
    UNION {{[shape |-> sh, a |-> f] : f \in [Indices(sh) -> Intensities]} : sh \in ImShapes}
        \cup BlockImages \cup {SampleImage}

InitFilt ==
    /\ pc = "filter"
    /\ exc = "none"
    /\ im \in ImageInputs
    /\ im_filt = NoArray /\ mask_start = NoArray
    /\ dvoxel \in VoxelSizes
    /\ nvoxels = -1 /\ volume = -1
    /\ ts = <<>> /\ EFUnset /\ SegUnset /\ SerUnset /\ ParUnset /\ PairUnset /\ ErrUnset

\* the filter writing its result over its input as well
MedianFilter_in_place ==
    /\ pc = "filter"
    /\ im_filt' = ndi_median_filter(im, SmoothingSize)
    /\ im' = im_filt'
    /\ pc' = "threshold"
    /\ UNCHANGED <<exc, mask_start, efVars, segVars, volVars, serVars, parVars, pairVars, errVars>>

\* im_filt = ndi.median_filter(im, size=3)
MedianFilter ==
    /\ pc = "filter"
    /\ im_filt' = ndi_median_filter(im, SmoothingSize)
    /\ pc' = "threshold"
    /\ UNCHANGED <<exc, im, mask_start, efVars, segVars, volVars, serVars, parVars, pairVars, errVars>>

\* the thresholded mask handed on as the final mask, the closing left out
ThresholdMask_skipping_closing ==
    /\ pc = "threshold"
    /\ mask_start' = WhereGt(im_filt, MaskThreshold)
    /\ mask' = mask_start'
    /\ pc' = "label"
    /\ UNCHANGED <<exc, im, im_filt, labels, nlabels, anchor, lv_val, lv_mask,
                   efVars, volVars, serVars, parVars, pairVars, errVars>>

\* mask_start = np.where(im_filt > 60, 1, 0)
ThresholdMask ==
    /\ pc = "threshold"
    /\ mask_start' = WhereGt(im_filt, MaskThreshold)
    /\ pc' = "closing"
    /\ UNCHANGED <<exc, im, im_filt, efVars, segVars, volVars, serVars, parVars, pairVars, errVars>>

\* mask = ndi.binary_closing(mask_start)
Closing ==
    /\ pc = "closing"
    /\ mask' = ndi_binary_closing(mask_start)
    /\ pc' = "label"
    /\ UNCHANGED <<exc, filtVars, labels, nlabels, anchor, lv_val, lv_mask,
                   efVars, volVars, serVars, parVars, pairVars, errVars>>

NextFilt ==
    \/ MedianFilter \/ ThresholdMask \/ Closing
    \/ LabelMask \/ SelectLV \/ ExtractLV \/ CalcVolume

SpecFilt == InitFilt /\ [][NextFilt]_vars

\* the same cell on the images of at most MaxFairPixels pixels and the 3x3
\* sample, with unit voxels, every enabled step eventually run
MaxFairPixels == 9

InitFiltFair ==
    /\ InitFilt
    /\ (NumCells(im.shape) <= MaxFairPixels \/ im = SampleImage)
    /\ dvoxel = 1

SpecFiltFair == InitFiltFair /\ [][NextFilt]_vars /\ WF_vars(NextFilt)

----------------------------------------------------------------------------
(* Cell "Measure ejection fraction" *)

SeriesInputs == UNION {[0 .. (n - 1) -> Volumes] : n \in 0 .. MaxLen}

InitEF ==
    /\ pc = "argmax"
    /\ exc = "none"
    /\ ts \in SeriesInputs
    /\ EFUnset /\ SegUnset /\ SerUnset /\ ParUnset /\ FiltUnset /\ PairUnset /\ ErrUnset
    /\ dvoxel = -1 /\ nvoxels = -1 /\ volume = -1

\* tmax = np.argmax(ts); an empty array raises ValueError
ArgMax ==
    /\ pc = "argmax"
    /\ IF Size(ts) = 0
       THEN /\ exc' = "ValueError"
            /\ pc' = "raised"
            /\ UNCHANGED tmax
       ELSE /\ tmax' = np_argmax(ts)
            /\ pc' = "argmin"
            /\ UNCHANGED exc
    /\ UNCHANGED <<ts, tmin, ej_vol, ej_frac>>
    /\ UNCHANGED notEF

\* tmin = np.argmin(ts)
ArgMin ==
    /\ pc = "argmin"
    /\ tmin' = np_argmin(ts)
    /\ pc' = "ej_vol"
    /\ UNCHANGED <<exc, ts, tmax, ej_vol, ej_frac>>
    /\ UNCHANGED notEF

\* the two extrema added instead of subtracted
EjVol_sum ==
    /\ pc = "ej_vol"
    /\ ej_vol' = np_max(ts) + np_min(ts)
    /\ pc' = "ej_frac"
    /\ UNCHANGED <<exc, ts, tmax, tmin, ej_frac>>
    /\ UNCHANGED notEF

\* ej_vol = ts.max() - ts.min()
EjVol ==
    /\ pc = "ej_vol"
    /\ ej_vol' = np_max(ts) - np_min(ts)
    /\ pc' = "ej_frac"
    /\ UNCHANGED <<exc, ts, tmax, tmin, ej_frac>>
    /\ UNCHANGED notEF

\* ej_frac = ej_vol / ts.max(); the two prints end the cell
EjFrac ==
    /\ pc = "ej_frac"
    /\ ej_frac' = TrueDivide(ej_vol, np_max(ts))
    /\ pc' = "printed"
    /\ UNCHANGED <<exc, ts, tmax, tmin, ej_vol>>
    /\ UNCHANGED notEF

NextEF == ArgMax \/ ArgMin \/ EjVol \/ EjFrac

SpecEF == InitEF /\ [][NextEF]_vars

----------------------------------------------------------------------------
(* Cell "Summarize the time series", followed by "Measure ejection fraction" *)

\* masks of one small volume (plane, row, col): empty, one voxel, two joined
\* voxels, two objects, full
FrameShape == <<1, 2, 3>>

FrameMasks ==
    << MaskOf(FrameShape, {}),
       MaskOf(FrameShape, {<<0, 0, 0>>}),
       MaskOf(FrameShape, {<<0, 0, 0>>, <<0, 0, 1>>}),
       MaskOf(FrameShape, {<<0, 0, 0>>, <<0, 1, 1>>, <<0, 1, 2>>}),
       MaskOf(FrameShape, Indices(FrameShape)) >>

\* the provided 4-D label array, ordered by (time, plane, row, col): n time
\* points, each the labelled segmentation of one volume
FrameSeries(n, base, stride) ==
    [tt \in 0 .. (n - 1) |->
        ndi_label(FrameMasks[((base + stride * tt) % Len(FrameMasks)) + 1]).labels]

LabelSeriesInputs ==
    {FrameSeries(n, base, stride) :
        n \in 0 .. MaxFrames, base \in 0 .. (Len(FrameMasks) - 1), stride \in 0 .. MaxStride}

\* sampling rates (time, plane, row, col) found in vol_ts.meta
Samplings == {<<1, 1, 1, 1>>, <<3, 2, 1, 1>>}

InitSeries ==
    /\ pc = "create_ts"
    /\ exc = "none"
    /\ labels_ts \in LabelSeriesInputs
    /\ sampling \in Samplings
    /\ t = -1
    /\ ts = <<>>
    /\ dvoxel = -1 /\ nvoxels = -1 /\ volume = -1
    /\ EFUnset /\ SegUnset /\ ParUnset /\ FiltUnset /\ PairUnset /\ ErrUnset

Init == InitSeries

\* ts = ____ : an empty (all-zero) series with one entry per time point
CreateTs ==
    /\ pc = "create_ts"
    /\ ts' = [tt \in DOMAIN labels_ts |-> 0]
    /\ pc' = "dvoxel"
    /\ UNCHANGED <<exc, dvoxel, nvoxels, serVars, parVars, notSer>>

\* d0, d1, d2, d3 = ____ ; dvoxel = ____ : the size of one voxel is the
\* product of the three spatial sampling rates
CalcVoxelSize ==
    /\ pc = "dvoxel"
    /\ dvoxel' = sampling[2] * sampling[3] * sampling[4]
    /\ t' = 0
    /\ pc' = "loop"
    /\ UNCHANGED <<exc, ts, nvoxels, labels_ts, sampling, parVars, notSer>>

\* the value stored at the first entry still 0, whatever its time point
StoreAtFirstFree(series, tt, v) ==
    LET free == {i \in DOMAIN series : series[i] = 0}
    IN  IF free = {} THEN series
        ELSE [series EXCEPT ![CHOOSE i \in free : \A j \in free : i <= j] = v]

\* the value added to the entry before it: a running total
StoreAtRunningTotal(series, tt, v) ==
    [series EXCEPT ![tt] = v + (IF tt - 1 \in DOMAIN series THEN series[tt - 1] ELSE 0)]

\* the entry of time point tt is assigned by index: ts[t] = ____
StoreAt(series, tt, v) == [series EXCEPT ![tt] = v]

\* a pass that measures whatever label it reads at the first voxel of the
\* frame, the background included
LoopBody_label_read_at_index ==
    /\ pc = "loop"
    /\ t < NumTimePoints
    /\ IF t \in DOMAIN labels_ts
       THEN LET v == labels_ts[t].a[Unravel(0, labels_ts[t].shape)]
            IN  /\ nvoxels' = CountEq(labels_ts[t], v)
                /\ ts' = StoreAt(ts, t, MeasureVolume(labels_ts[t], v, dvoxel))
                /\ t' = t + 1
                /\ UNCHANGED <<pc, exc>>
       ELSE /\ exc' = "IndexError"
            /\ pc' = "raised"
            /\ UNCHANGED <<ts, nvoxels, t>>
    /\ UNCHANGED <<dvoxel, labels_ts, sampling, parVars, notSer>>

\* one pass of "for t in range(20)": count the voxels of the left ventricle
\* in the label array of time point t and store their volume in ts[t];
\* indexing past the last time point raises IndexError
LoopBody ==
    /\ pc = "loop"
    /\ t < NumTimePoints
    /\ IF t \in DOMAIN labels_ts
       THEN /\ nvoxels' = CountEq(labels_ts[t], LVLabel)
            /\ ts' = StoreAt(ts, t, MeasureVolume(labels_ts[t], LVLabel, dvoxel))
            /\ t' = t + 1
            /\ UNCHANGED <<pc, exc>>
       ELSE /\ exc' = "IndexError"
            /\ pc' = "raised"
            /\ UNCHANGED <<ts, nvoxels, t>>
    /\ UNCHANGED <<dvoxel, labels_ts, sampling, parVars, notSer>>

\* range(20) is exhausted: the series is plotted and the next cell runs
LoopExit ==
    /\ pc = "loop"
    /\ t >= NumTimePoints
    /\ pc' = "argmax"
    /\ UNCHANGED <<exc, ts, dvoxel, nvoxels, serVars, parVars, notSer>>

Next ==
    \/ CreateTs \/ CalcVoxelSize \/ LoopBody \/ LoopExit
    \/ ArgMax \/ ArgMin \/ EjVol \/ EjFrac

Spec == Init /\ [][Next]_vars

----------------------------------------------------------------------------
(* The loop of "Summarize the time series" with its passes handed to        *)
(* workers: time points are handed out in order, at most MaxWorkers are    *)
(* being measured at once, and the workers finish in any order.            *)

InitPar ==
    /\ InitSeries
    /\ Size(labels_ts) = NumTimePoints

\* the next time point of range(20) is handed to a free worker
Dispatch ==
    /\ pc = "loop"
    /\ t < NumTimePoints
    /\ Cardinality(inflight) < MaxWorkers
    /\ inflight' = inflight \cup {t}
    /\ t' = t + 1
    /\ UNCHANGED <<pc, exc, ts, dvoxel, nvoxels, labels_ts, sampling, reordered, notSer>>

\* a worker finishes the loop body for its time point w
Complete ==
    /\ pc = "loop"
    /\ \E w \in inflight :
          /\ nvoxels' = CountEq(labels_ts[w], LVLabel)
          /\ ts' = StoreAt(ts, w, MeasureVolume(labels_ts[w], LVLabel, dvoxel))
          /\ inflight' = inflight \ {w}
          /\ reordered' = (reordered \/ \E u \in inflight : u < w)
    /\ UNCHANGED <<pc, exc, dvoxel, serVars, notSer>>

\* every time point was handed out and every worker has finished
Gather ==
    /\ pc = "loop"
    /\ t >= NumTimePoints
    /\ inflight = {}
    /\ pc' = "gathered"
    /\ UNCHANGED <<exc, ts, dvoxel, nvoxels, serVars, parVars, notSer>>

NextPar == CreateTs \/ CalcVoxelSize \/ Dispatch \/ Complete \/ Gather

SpecPar == InitPar /\ [][NextPar]_vars

----------------------------------------------------------------------------
(* The loop of "Summarize the time series" run on two label arrays side by *)
(* side, with the same sampling rates: ts is measured from labels_ts and   *)
(* ts2 from labels_ts2, pass by pass.                                      *)

InitPair ==
    /\ InitSeries
    /\ Size(labels_ts) = NumTimePoints

\* ts = ____ in both runs
CreateTsBoth ==
    /\ pc = "create_ts"
    /\ \E other \in LabelSeriesInputs :
          /\ Size(other) = NumTimePoints
          /\ labels_ts2' = other
          /\ ts2' = [tt \in DOMAIN other |-> 0]
    /\ ts' = [tt \in DOMAIN labels_ts |-> 0]
    /\ pc' = "dvoxel"
    /\ UNCHANGED <<exc, dvoxel, nvoxels, serVars, parVars,
                   tmax, tmin, ej_vol, ej_frac, segVars, volume, filtVars, errVars>>

\* one pass of "for t in range(20)" in both runs
LoopBodyBoth ==
    /\ pc = "loop"
    /\ t < NumTimePoints
    /\ IF t \in DOMAIN labels_ts /\ t \in DOMAIN labels_ts2
       THEN /\ nvoxels' = CountEq(labels_ts[t], LVLabel)
            /\ ts' = StoreAt(ts, t, MeasureVolume(labels_ts[t], LVLabel, dvoxel))
            /\ ts2' = StoreAt(ts2, t, MeasureVolume(labels_ts2[t], LVLabel, dvoxel))
            /\ t' = t + 1
            /\ UNCHANGED <<pc, exc>>
       ELSE /\ exc' = "IndexError"
            /\ pc' = "raised"
            /\ UNCHANGED <<ts, ts2, nvoxels, t>>
    /\ UNCHANGED <<dvoxel, labels_ts, sampling, parVars, labels_ts2,
                   tmax, tmin, ej_vol, ej_frac, segVars, volume, filtVars, errVars>>

NextPair == CreateTsBoth \/ CalcVoxelSize \/ LoopBodyBoth \/ LoopExit

SpecPair == InitPair /\ [][NextPair]_vars

----------------------------------------------------------------------------
(* Mean absolute error between two images (Code/ch4) *)

\* largest number of pixels of a compared image
MaxErrPixels == 2

\* intensities of an 8-bit image: both ends of 0..255 and values between
PixelValues == {0, 1, 100, 200, 255}

\* the data type the two images are stored in
DTypes == {"uint8", "int64"}

\* im1 - im2, element by element, in the data type of the operands: unsigned
\* 8-bit arithmetic is modulo 2^8
np_subtract(x, y, dt) ==
    [shape |-> x.shape,
     a |-> [i \in DOMAIN x.a |->
              IF dt = "uint8" THEN (x.a[i] - y.a[i]) % 256 ELSE x.a[i] - y.a[i]]]

\* np.abs: an unsigned element is its own absolute value
np_abs(x, dt) ==
    [shape |-> x.shape,
     a |-> [i \in DOMAIN x.a |->
              IF dt = "uint8" THEN x.a[i]
              ELSE IF x.a[i] < 0 THEN 0 - x.a[i] ELSE x.a[i]]]

\* sum of the elements from position i of the row-major traversal on
RECURSIVE SumFrom(_, _)
SumFrom(x, i) ==
    IF i >= NumCells(x.shape) THEN 0
    ELSE x.a[Unravel(i, x.shape)] + SumFrom(x, i + 1)

\* np.mean: the sum, accumulated in float64, over the number of elements
np_mean(x) == TrueDivide(SumFrom(x, 0), NumCells(x.shape))

ErrShapes ==
    {sh \in (1 .. MaxErrPixels) \X (1 .. MaxErrPixels) : sh[1] * sh[2] <= MaxErrPixels}

ErrImages(sh) == {[shape |-> sh, a |-> f] : f \in [Indices(sh) -> PixelValues]}

InitErr ==
    /\ pc = "abs_err"
    /\ exc = "none"
    /\ \E sh \in ErrShapes : im1 \in ErrImages(sh) /\ im2 \in ErrImages(sh)
    /\ dtype \in DTypes
    /\ abs_err = NoArray /\ mean_abs_err = NoValue
    /\ ts = <<>> /\ dvoxel = -1 /\ nvoxels = -1 /\ volume = -1
    /\ EFUnset /\ SegUnset /\ SerUnset /\ ParUnset /\ FiltUnset /\ PairUnset

\* abs_err = np.abs(im1 - im2)
AbsErr ==
    /\ pc = "abs_err"
    /\ abs_err' = np_abs(np_subtract(im1, im2, dtype), dtype)
    /\ pc' = "mean_abs_err"
    /\ UNCHANGED <<exc, im1, im2, dtype, mean_abs_err, efVars, segVars, volVars,
                   serVars, parVars, filtVars, pairVars>>

\* mean_abs_err = np.mean(np.abs(im1 - im2))
MeanAbsErr ==
    /\ pc = "mean_abs_err"
    /\ mean_abs_err' = np_mean(np_abs(np_subtract(im1, im2, dtype), dtype))
    /\ pc' = "mae_printed"
    /\ UNCHANGED <<exc, im1, im2, dtype, abs_err, efVars, segVars, volVars,
                   serVars, parVars, filtVars, pairVars>>

NextErr == AbsErr \/ MeanAbsErr

SpecErr == InitErr /\ [][NextErr]_vars

----------------------------------------------------------------------------
(* Properties of the time series *)

NumFrames == Size(labels_ts)

SeriesReturned == pc \in {"argmax", "argmin", "ej_vol", "ej_frac", "printed"}

RECURSIVE ScanCount(_, _, _)
ScanCount(arr, v, i) ==
    IF i >= NumCells(arr.shape) THEN 0
    ELSE (IF arr.a[Unravel(i, arr.shape)] = v THEN 1 ELSE 0) + ScanCount(arr, v, i + 1)

\* the passes of the loop already made
Measured == {i \in DOMAIN ts : i < t}

----------------------------------------------------------------------------
(* Properties of the ejection-fraction cell *)

Ended == pc \in {"printed", "raised"}

\* m is the largest (smallest) element of the non-empty series s
IsMaxOf(s, m) == (\E i \in DOMAIN s : s[i] = m) /\ (\A i \in DOMAIN s : s[i] <= m)
IsMinOf(s, m) == (\E i \in DOMAIN s : s[i] = m) /\ (\A i \in DOMAIN s : s[i] >= m)

Degenerate(s) == \A i \in DOMAIN s : s[i] = 0
ConstantSeries(s) == Size(s) >= 1 /\ s[0] > 0 /\ \A i \in DOMAIN s : s[i] = s[0]

ScenarioSeries == [i \in 0 .. 3 |-> IF i = 0 THEN 100 ELSE IF i = 1 THEN 80
                                    ELSE IF i = 2 THEN 120 ELSE 90]

\* C1: on an empty series or a series of zeros the cell ends in the distinct
\* "degenerate series" failure: it yields no number, no nan and no undefined
\* quotient, and raises no other exception.
C1_DegenerateSeriesFailure ==
    (Ended /\ Degenerate(ts)) =>
        (exc = "DegenerateSeries" /\ ej_frac.kind = "unset")

\* C2: for a non-empty series with a positive maximum the cell yields
\* (max - min) / max, tmax indexes a largest and tmin a smallest element;
\* on [100, 80, 120, 90] it yields 40/120 with tmax = 2 and tmin = 1.
C2_RatioAndExtremaIndices ==
    (pc = "printed" /\ ~Degenerate(ts)) =>
        /\ tmax \in DOMAIN ts /\ IsMaxOf(ts, ts[tmax])
        /\ tmin \in DOMAIN ts /\ IsMinOf(ts, ts[tmin])
        /\ ej_frac.kind = "number"
        /\ ej_frac.num * ts[tmax] = (ts[tmax] - ts[tmin]) * ej_frac.den
        /\ (ts = ScenarioSeries =>
              tmax = 2 /\ tmin = 1 /\ ej_frac.num * 120 = 40 * ej_frac.den)

C2_Witness ==
    pc = "printed" /\ ts = ScenarioSeries /\ tmax = 2 /\ tmin = 1

\* C3: for a non-empty series of non-negative volumes with a positive maximum
\* the ratio lies in [0, 1].
C3_RatioInUnitInterval ==
    (pc = "printed" /\ ~Degenerate(ts) /\ \A i \in DOMAIN ts : ts[i] >= 0) =>
        /\ ej_frac.kind = "number"
        /\ ej_frac.den > 0
        /\ 0 <= ej_frac.num /\ ej_frac.num <= ej_frac.den

C3_Witness ==
    /\ pc = "printed" /\ ej_frac.kind = "number"
    /\ 0 < ej_frac.num /\ ej_frac.num < ej_frac.den

\* C4: on a constant series of a positive volume, of any length from one
\* frame up, the ratio is exactly 0 and both extrema indices index the series.
C4_ConstantSeriesGivesZero ==
    (pc = "printed" /\ ConstantSeries(ts)) =>
        /\ ej_frac.kind = "number" /\ ej_frac.num = 0 /\ ej_frac.den # 0
        /\ 0 <= tmax /\ tmax < Size(ts)
        /\ 0 <= tmin /\ tmin < Size(ts)

C4_Witness ==
    pc = "printed" /\ ConstantSeries(ts) /\ Size(ts) = 1 /\ ej_frac.num = 0

----------------------------------------------------------------------------
(* Properties of labelling, selection and measurement *)

Ones(m) == {x \in DOMAIN m.a : m.a[x] # 0}

\* two index tuples share a face: they differ by one step along one axis
Adjacent(x, y) ==
    /\ Cardinality({k \in DOMAIN x : x[k] # y[k]}) = 1
    /\ \E k \in DOMAIN x : x[k] - y[k] \in {-1, 1}

\* transitive closure of a relation given as a set of pairs
RECURSIVE Closure(_)
Closure(R) ==
    LET step == UNION {{<<p[1], q[2]>> : q \in {q \in R : q[1] = p[2]}} : p \in R}
    IN  IF step \subseteq R THEN R ELSE Closure(R \cup step)

\* pairs of true cells joined by a path of true cells sharing faces
Joined(m) ==
    Closure({<<x, y>> \in Ones(m) \X Ones(m) : x = y \/ Adjacent(x, y)})

Labelled == pc \in {"select", "extract", "volume", "measured"}

\* C7: the number of objects is 0 exactly when the mask has no true cell.
C7_NoObjectIffEmptyMask ==
    Labelled => (nlabels = 0 <=> Ones(mask) = {})

C7_Witness ==
    /\ Labelled /\ nlabels = 0 /\ NumCells(mask.shape) >= 4

\* C8: the volumes of the labels 1..K add up to the volume of all cells with
\* a non-zero label.
RECURSIVE SumOfVolumes(_, _, _)
SumOfVolumes(lab, k, dv) ==
    IF k = 0 THEN 0 ELSE MeasureVolume(lab, k, dv) + SumOfVolumes(lab, k - 1, dv)

C8_VolumeConservedAcrossLabels ==
    Labelled =>
        SumOfVolumes(labels, nlabels, dvoxel) = Cardinality(Ones(labels)) * dvoxel

C8_Witness ==
    /\ Labelled /\ nlabels >= 3 /\ dvoxel = 2
    /\ SumOfVolumes(labels, nlabels, dvoxel) = 8

\* C9: the label array has the mask's shape, is 0 exactly on the false cells,
\* uses exactly the values 1..K on the true cells, and two true cells carry
\* the same label exactly when a path of true cells sharing faces joins them;
\* two 2x2 blocks that share no face give K = 2 with 4 cells each.
C9_LabelsAreFaceConnectedObjects ==
    pc = "select" =>
        /\ labels.shape = mask.shape
        /\ DOMAIN labels.a = Indices(mask.shape)
        /\ \A x \in DOMAIN mask.a : labels.a[x] = 0 <=> mask.a[x] = 0
        /\ {labels.a[x] : x \in Ones(mask)} = 1 .. nlabels
        /\ LET joined == Joined(mask)
           IN  \A x, y \in Ones(mask) :
                  labels.a[x] = labels.a[y] <=> <<x, y>> \in joined
        /\ (mask \in {TwoBlocksMask, CornerBlocksMask} =>
              nlabels = 2 /\ CountEq(labels, 1) = 4 /\ CountEq(labels, 2) = 4)

C9_Witness ==
    /\ pc = "select" /\ mask = CornerBlocksMask /\ nlabels = 2
    /\ labels.a[<<2, 2>>] = 1 /\ labels.a[<<3, 3>>] = 2

\* C10: on the 5x5 mask with the centred 3x3 block there is one object,
\* label 1 covers exactly the block, reading the labels at an anchor inside
\* the block gives 1, and the volume is 9 voxels (9 for voxel size 1).
C10_CentredBlockEndToEnd ==
    (mask = CentredBlockMask) =>
        /\ Labelled =>
              /\ nlabels = 1
              /\ {x \in DOMAIN labels.a : labels.a[x] = 1} = Block(1, 3, 1, 3)
        /\ (pc \in {"extract", "volume", "measured"} /\ anchor \in Block(1, 3, 1, 3)) =>
              lv_val = 1
        /\ pc = "measured" =>
              /\ nvoxels = 9
              /\ volume = 9 * dvoxel
              /\ (dvoxel = 1 => volume = 9)

C10_Witness ==
    /\ mask = CentredBlockMask /\ pc = "measured" /\ anchor = <<2, 2>>
    /\ lv_val = 1 /\ dvoxel = 1 /\ volume = 9

\* C11 as stated: reading the labels at the anchor gives the label there when
\* it is non-zero; when it is 0 the selection ends in the distinct "no
\* component at anchor" failure and no mask of the cells labelled 0 is built.
C11_BackgroundAnchorFails ==
    pc \in {"extract", "volume", "measured"} =>
        IF labels.a[anchor] # 0
        THEN lv_val = labels.a[anchor] /\ exc = "none"
        ELSE exc = "NoComponentAtAnchor" /\ lv_mask = NoArray

----------------------------------------------------------------------------
(* Properties of the filter, threshold, closing and labelling cell *)

\* other neighbourhood sizes and thresholds the same calls can be given
SmoothingSizes == {1, 3, 5}
Thresholds == {17, 60, 93}

SameShape(x, y) == x.shape = y.shape /\ DOMAIN x.a = DOMAIN y.a

\* C13: the filtered image, the thresholded mask, the closed mask and the
\* label array all have exactly the shape of the input image, whatever the
\* shape, the neighbourhood size and the threshold.
C13_ShapePreserved ==
    /\ im_filt # NoArray => SameShape(im_filt, im)
    /\ mask_start # NoArray => SameShape(mask_start, im)
    /\ (mask # NoArray /\ im # NoArray) => SameShape(mask, im)
    /\ (labels # NoArray /\ im # NoArray) => SameShape(labels, im)
    /\ pc = "threshold" =>
          \A size \in SmoothingSizes, th \in Thresholds :
              LET f == ndi_median_filter(im, size)
                  m == ndi_binary_closing(WhereGt(f, th))
              IN  /\ SameShape(f, im)
                  /\ SameShape(WhereGt(f, th), im)
                  /\ SameShape(m, im)
                  /\ SameShape(ndi_label(m).labels, im)

C13_Witness ==
    /\ pc = "select" /\ im.shape = <<2, 4>> /\ labels.shape = <<2, 4>>
    /\ mask_start.shape = <<2, 4>> /\ \E x \in DOMAIN mask_start.a : mask_start.a[x] = 1

AllZero(arr) == \A x \in DOMAIN arr.a : arr.a[x] = 0

\* C14: when no filtered intensity exceeds the threshold, the thresholded
\* mask is all false, the closing adds nothing to it, and the labelling
\* completes with 0 objects and an all-zero label array.
C14_NothingAboveThreshold ==
    (im_filt # NoArray /\ \A x \in DOMAIN im_filt.a : im_filt.a[x] <= MaskThreshold) =>
        /\ exc = "none"
        /\ mask_start # NoArray => AllZero(mask_start)
        /\ mask # NoArray => AllZero(mask)
        /\ labels # NoArray => (nlabels = 0 /\ AllZero(labels))

C14_Witness ==
    /\ pc = "select" /\ nlabels = 0 /\ AllZero(labels) /\ AllZero(mask_start)
    /\ \E x \in DOMAIN im.a : im.a[x] > MaskThreshold
    /\ \E x \in DOMAIN im_filt.a : im_filt.a[x] = MaskThreshold

\* C16: every step leaves the arrays it reads unchanged and puts its result
\* in a name that held nothing before: an array, once assigned, never changes.
C16_InputsLeftUnchanged ==
    [][/\ im' = im
       /\ im_filt # NoArray => im_filt' = im_filt
       /\ mask_start # NoArray => mask_start' = mask_start
       /\ mask # NoArray => mask' = mask
       /\ labels # NoArray => labels' = labels
       /\ lv_mask # NoArray => lv_mask' = lv_mask]_vars

C16_Witness ==
    /\ pc = "measured" /\ im # NoArray /\ im_filt.a # im.a /\ mask.a # mask_start.a
    /\ lv_mask.a # labels.a

\* C18: the closing (one dilation, one erosion, face-adjacent structure) does
\* not grow the outside of the mask: every cell set in the closed mask lies
\* within the bounding box of the cells set in the thresholded mask.
C18_ClosingStaysInBoundingBox ==
    (mask # NoArray /\ mask_start # NoArray) =>
        \A x \in DOMAIN mask.a :
            mask.a[x] # 0 =>
                \A k \in 1 .. Len(mask.shape) :
                    \E y, z \in Ones(mask_start) : y[k] <= x[k] /\ x[k] <= z[k]

C18_Witness ==
    /\ pc = "label"
    /\ \E x \in DOMAIN mask.a : mask.a[x] = 1 /\ mask_start.a[x] = 0
    /\ \E x \in DOMAIN mask.a : mask.a[x] = 0 /\ mask_start.a[x] = 1

\* position of a step in the cell: image, mask, label array, measurement
Stage(p) ==
    CASE p = "filter" -> 1 [] p = "threshold" -> 2 [] p = "closing" -> 3
      [] p = "label" -> 4 [] p = "select" -> 5 [] p = "extract" -> 6
      [] p = "volume" -> 7 [] p = "measured" -> 8 [] OTHER -> 0

\* C19: the steps run strictly in the order image, mask, label array,
\* measurement, one after the other with none skipped, repeated or retried,
\* and every started run eventually reaches its measurement or a reported
\* failure.
C19_StrictLinearPipeline ==
    /\ [][/\ Stage(pc') = Stage(pc) + 1
          /\ (mask' # NoArray) = (Stage(pc') >= 4)
          /\ (labels' # NoArray) = (Stage(pc') >= 5)
          /\ (volume' # -1) = (Stage(pc') >= 8)]_vars
    /\ <>(pc \in {"measured", "raised"})

C19_Witness ==
    /\ pc = "measured" /\ im # NoArray /\ im_filt # NoArray /\ mask_start # NoArray
    /\ nlabels = 1 /\ nvoxels = 1 /\ volume = 1

----------------------------------------------------------------------------
(* Properties of the median filter *)

\* the sequence vals with the element at position i taken out
Without(vals, i) == [j \in 1 .. (Len(vals) - 1) |-> IF j < i THEN vals[j] ELSE vals[j + 1]]

\* vals in ascending order: the smallest element first, then the rest sorted
RECURSIVE Sorted(_)
Sorted(vals) ==
    IF Len(vals) = 0 THEN <<>>
    ELSE LET i == CHOOSE k \in 1 .. Len(vals) : \A j \in 1 .. Len(vals) : vals[k] <= vals[j]
         IN  <<vals[i]>> \o Sorted(Without(vals, i))

\* the nine values of the 3x3 neighbourhood of the interior pixel x, row by row
Neighbourhood(arr, x) ==
    [n \in 1 .. 9 |-> arr.a[<<x[1] - 1 + ((n - 1) \div 3), x[2] - 1 + ((n - 1) % 3)>>]]

\* the pixels of a 2-D array whose 3x3 neighbourhood lies inside the array
Interior(arr) ==
    {x \in DOMAIN arr.a : /\ 1 <= x[1] /\ x[1] <= arr.shape[1] - 2
                          /\ 1 <= x[2] /\ x[2] <= arr.shape[2] - 2}

\* C21: the filter of size 3 replaces every interior pixel by the median (the
\* fifth of the nine sorted values) of its 3x3 neighbourhood, itself
\* included; for [[93,36,87],[18,49,51],[45,32,63]] the filtered centre is 49.
C21_MedianOfNeighbourhood ==
    pc = "threshold" =>
        /\ \A x \in Interior(im) : im_filt.a[x] = Sorted(Neighbourhood(im, x))[5]
        /\ im = SampleImage => im_filt.a[<<1, 1>>] = 49

C21_Witness ==
    /\ pc = "threshold" /\ im = SampleImage
    /\ im.a[<<1, 1>>] = 49 /\ im.a[<<0, 0>>] = 93 /\ im.a[<<2, 1>>] = 32
    /\ im_filt.a[<<1, 1>>] = 49

----------------------------------------------------------------------------
(* Properties of the closing *)

\* C22 as stated: the closing never removes a cell of the thresholded mask:
\* every cell set in mask_start is set in the closed mask, cells on the
\* border of the array included.
C22_ClosingKeepsEveryCell ==
    (mask # NoArray /\ mask_start # NoArray) =>
        \A x \in DOMAIN mask_start.a : mask_start.a[x] # 0 => mask.a[x] # 0

----------------------------------------------------------------------------
(* Properties of the mean absolute error *)

Distance(a, b) == IF a < b THEN b - a ELSE a - b

\* C23 as stated: for two images of 8-bit unsigned integers abs_err is the
\* true absolute difference |a - b| at every pixel (the subtraction does not
\* wrap modulo 256), so the mean absolute error is the same with the images
\* swapped, is 0 exactly when the images are equal, and is the mean of the
\* true differences.
C23_AbsErrIsTrueDifference ==
    dtype = "uint8" =>
        /\ abs_err # NoArray =>
              \A x \in DOMAIN abs_err.a : abs_err.a[x] = Distance(im1.a[x], im2.a[x])
        /\ pc = "mae_printed" =>
              /\ mean_abs_err = np_mean(np_abs(np_subtract(im2, im1, dtype), dtype))
              /\ (mean_abs_err.num = 0) = (im1 = im2)
              /\ mean_abs_err.num =
                    SumFrom([shape |-> im1.shape,
                             a |-> [x \in DOMAIN im1.a |-> Distance(im1.a[x], im2.a[x])]], 0)

====
